---- MODULE Spec2Model ----
(***************************************************************************)
(* HoverAssistant: a model of the orchestrator (HoverAssistant), the       *)
(* position source (GPSManager), the render engine (DisplayManager) and    *)
(* the heading input (CompassController).                                  *)
(*                                                                         *)
(* Angles are fixed-point numbers in hundredths of a degree (360 degrees   *)
(* is 36000), so that the drag sensitivity of 0.67 degrees per pixel is    *)
(* the integer 67.  JavaScript's % is the truncated remainder (its sign is *)
(* the sign of the dividend); it is modelled by JsRem, not by TLA+'s %.    *)
(***************************************************************************)
EXTENDS Integers, FiniteSets, Sequences, TLC

VARIABLES
    \* ---- DisplayManager: heading ----
    selectedHeading,    \* DisplayManager.selectedHeading (hundredths of a degree)
    \* ---- CompassController ----
    isDragging,         \* CompassController.isDragging
    lastMouseX,         \* CompassController.lastMouseX
    lastMouseY,         \* CompassController.lastMouseY
    centerX,            \* CompassController.centerX
    centerY,            \* CompassController.centerY
    lastMove,           \* the last move event: what was computed and emitted for it
    canvasSize,         \* canvas.width = canvas.height (the canvas is square)
    activeControllers,  \* the CompassControllers that took the latest mousedown or touchstart
    \* ---- a probe on a sequence of heading deltas ----
    seqStart,           \* the heading when the observed sequence of deltas began
    seqSum,             \* the sum of the deltas applied since
    seqLen,             \* how many deltas were applied since
    \* ---- DisplayManager.drawPositionDot ----
    pixelsPerMeter,     \* DisplayManager.pixelsPerMeter
    localCoords,        \* the offset {x: east, y: north} in meters handed to the rotation
    dot,                \* what drawPositionDot computed last (rotated offset, pixel position)
    offset,             \* what gpsToLocalCoordinates returned last, and for which positions
    \* ---- HoverAssistant ----
    ha_markedPosition,  \* HoverAssistant.markedPosition (None or a sample)
    ha_currentPosition, \* HoverAssistant.currentPosition (None or a sample)
    ha_isTracking,      \* HoverAssistant.isTracking
    readout,            \* the distance and bearing elements HoverAssistant writes (None: '--')
    \* ---- GPSManager ----
    gps_watchId,        \* GPSManager.watchId (0 is null)
    gps_isTracking,     \* GPSManager.isTracking
    gps_lastPosition,   \* GPSManager.lastPosition
    gps_eventTarget,    \* GPSManager.eventTarget is an object (TRUE) or null (FALSE)
    \* ---- the browser ----
    watches,            \* the geolocation watches that are active (their ids)
    pendingStarts,      \* start() calls awaiting requestPermission(), by caller
    timers,             \* pending setTimeout(() => this.start(), 100) of updateSettings
    hidden,             \* document.hidden
    frames,             \* the requested animation frames not yet run or cancelled
    \* ---- UIManager (the DOM) ----
    modalShown,         \* the permission modal is visible
    markEnabled,        \* the mark button is enabled
    gpsStatus,          \* the GPS status indicator
    errorShown,         \* the error modal is visible
    appAlive,           \* app.hoverAssistant is set (FALSE after App.destroy)
    \* ---- DisplayManager ----
    dm_markedPosition,  \* DisplayManager.markedPosition
    dm_currentPosition, \* DisplayManager.currentPosition
    dm_animationId,     \* DisplayManager.animationId (0 is null)
    dm_ctx,             \* DisplayManager.canvas and ctx are set (FALSE: null)
    dm_isInitialized,   \* DisplayManager.isInitialized
    \* ---- probes ----
    orchStopped,        \* stopTracking() stopped the tracking and startTracking() was not called since
    sampleWhileStopped, \* a sample reached onPositionUpdate while orchStopped
    refAtMark,          \* the sample that was current when the last mark was handled
    resetSinceMark,     \* reset() was called after the last mark
    \* ---- the event registries ----
    listeners,          \* eventListeners of ThemeManager and of HoverAssistant (event -> callbacks)
    delivered,          \* the latest emission: the callbacks registered and the calls made
    \* ---- the canvas ----
    dm_gridSize,        \* DisplayManager.settings.gridSize
    resizeListeners,    \* the 'resize' listeners setupCanvas has added to window
    controllers,        \* the CompassControllers listening on the canvas
    \* ---- SettingsManager ----
    sm_settings,        \* SettingsManager.settings (category -> key -> value)
    sm_storage,         \* the item of localStorage under storageKey
    sm_last             \* the latest call of updateSettings, resetSettings or importSettings

headingVars == <<selectedHeading>>
compassVars == <<isDragging, lastMouseX, lastMouseY, centerX, centerY, lastMove, canvasSize,
                 activeControllers>>
seqVars     == <<seqStart, seqSum, seqLen>>
dotVars     == <<pixelsPerMeter, localCoords, dot, offset>>

haVars      == <<ha_markedPosition, ha_currentPosition, ha_isTracking, readout>>
gpsVars     == <<gps_watchId, gps_isTracking, gps_lastPosition, gps_eventTarget>>
envVars     == <<watches, pendingStarts, timers, hidden>>
uiVars      == <<modalShown, markEnabled, gpsStatus, errorShown, appAlive>>
dmVars      == <<dm_markedPosition, dm_currentPosition, dm_animationId, dm_ctx,
                 dm_isInitialized, frames>>
probeVars   == <<orchStopped, sampleWhileStopped, refAtMark, resetSinceMark>>
appVars     == <<haVars, gpsVars, envVars, uiVars, dmVars, probeVars>>
busVars     == <<listeners, delivered>>
canvasVars  == <<dm_gridSize, resizeListeners, controllers>>
smVars      == <<sm_settings, sm_storage, sm_last>>

vars == <<headingVars, compassVars, seqVars, dotVars, appVars, busVars, canvasVars, smVars>>

\* null, for the fields that hold an object or null
None == [none |-> TRUE]

\* The objects that keep a registry of event callbacks.
Registries == {"ThemeManager", "HoverAssistant"}

\* new Map()
EmptyMap == <<>>

(***************************************************************************)
(* Arithmetic of the host language.                                        *)
(***************************************************************************)
Abs(a) == IF a < 0 THEN -a ELSE a

\* JavaScript's a % n for n > 0: the remainder of the truncated division.
JsRem(a, n) == IF a >= 0 THEN a % n ELSE -((-a) % n)

FullTurn == 36000       \* 360 degrees, in hundredths of a degree

Max(a, b) == IF a >= b THEN a ELSE b

RECURSIVE sqrtBetween(_, _, _)
sqrtBetween(n, lo, hi) ==
    IF lo >= hi
      THEN lo
      ELSE LET mid == (lo + hi + 1) \div 2
           IN  IF mid * mid <= n
                 THEN sqrtBetween(n, mid, hi)
                 ELSE sqrtBetween(n, lo, mid - 1)

\* Math.sqrt, rounded down
Sqrt(n) == sqrtBetween(n, 0, 46340)

\* Math.sqrt(x * x + y * y), with x and y scaled down first where their
\* squares would not fit a machine integer
Hypot(x, y) ==
    LET k == 1 + Max(Abs(x), Abs(y)) \div 30000
        xs == Abs(x) \div k
        ys == Abs(y) \div k
    IN  k * Sqrt(xs * xs + ys * ys)

\* 1000 * Math.cos of a latitude
CosLat(lat) ==
    LET c == Abs(lat) \div 100000           \* hundredths of a degree
    IN  (324000000 - 4 * c * c) \div ((324000000 + c * c) \div 1000)

\* Math.atan(t / 1000) for 0 <= t <= 1000, in hundredths of a degree
\* (45 t + 15.64 t (1 - t) degrees, within 0.1 degree; exact at 0 and at 1)
AtanUnit(t) == (4500 * t + (1564 * t * (1000 - t)) \div 1000) \div 1000

\* Math.atan2(y, x) in hundredths of a degree, in (-180, 180] degrees
Atan2(y, x) ==
    LET k == 1 + Max(Abs(x), Abs(y)) \div 30000
        ax == Abs(x) \div k
        ay == Abs(y) \div k
        first == IF ax = 0 /\ ay = 0 THEN 0
                 ELSE IF ax >= ay THEN AtanUnit((ay * 1000) \div ax)
                 ELSE 9000 - AtanUnit((ax * 1000) \div ay)
    IN  IF x >= 0
          THEN IF y >= 0 THEN first ELSE -first
          ELSE IF y >= 0 THEN 18000 - first ELSE first - 18000

(***************************************************************************)
(* DisplayManager: heading accumulation.                                   *)
(***************************************************************************)
\* this.selectedHeading = (this.selectedHeading + rotationDelta + 360) % 360
onHeadingChange(heading, rotationDelta) ==
    JsRem(heading + rotationDelta + FullTurn, FullTurn)

\* this.selectedHeading = (heading + 360) % 360
setSelectedHeading(heading) == JsRem(heading + FullTurn, FullTurn)

(***************************************************************************)
(* CompassController: drag gestures to heading deltas.                     *)
(***************************************************************************)
\* this.sensitivity = 0.67 degrees per pixel, in hundredths of a degree
Sensitivity == 67

\* The sizes the square canvas takes, and the pointer coordinates (clientX,
\* clientY) the events carry.
CanvasSizes == {1200}
Pixels == {0, 600, 1200}

\* settings.gridSize, the half-extent of the grid in meters
DefaultGridSize == 5

\* setupCanvas(): pixelsPerMeter = (minDimension * 0.9) / (gridSize * 2)
scaleFor(size, gridSize) == (size * 9) \div (gridSize * 2 * 10)

\* canvas.getBoundingClientRect(): where the canvas lies in the viewport
rect == [left |-> 0, top |-> 0]

\* The headings setSelectedHeading is called with.
HeadingArgs == {0, 9000, -45000}

\* calculateRotationDelta scaling the movement by the distance from the centre
\* (a rotation that grows with the lever arm) instead of by the half alone
calculateRotationDelta_Lever(cX, cY, canvasX, canvasY, deltaX, deltaY) ==
    LET relativeX == canvasX - cX
        relativeY == canvasY - cY
    IN  (deltaX * relativeY - deltaY * relativeX) * Sensitivity

calculateRotationDelta(cX, cY, canvasX, canvasY, deltaX, deltaY) ==
    LET relativeX == canvasX - cX
        relativeY == canvasY - cY
        horizontal == IF relativeY < 0
                        THEN -deltaX * Sensitivity      \* top half
                        ELSE deltaX * Sensitivity       \* bottom half
        vertical == IF relativeX < 0
                        THEN deltaY * Sensitivity       \* left half
                        ELSE -deltaY * Sensitivity      \* right half
    IN  horizontal + vertical

\* updateCenter(): centerX = canvas.width / 2, centerY = canvas.height / 2
updateCenter ==
    /\ centerX' = canvasSize \div 2
    /\ centerY' = canvasSize \div 2

RECURSIVE headingAfter(_, _, _)
\* The heading after each of n controllers has called onHeadingChange(rotationDelta):
\* every controller on the canvas receives the event, and those that took the
\* same mousedown compute the same delta.
headingAfter(heading, rotationDelta, n) ==
    IF n = 0 THEN heading
    ELSE headingAfter(onHeadingChange(heading, rotationDelta), rotationDelta, n - 1)

\* The body shared by handleMouseMove and handleTouchMove once the guard passed.
pointerMove(currentX, currentY) ==
    LET deltaX == currentX - lastMouseX
        deltaY == currentY - lastMouseY
        canvasX == currentX - rect.left
        canvasY == currentY - rect.top
        rotationDelta == calculateRotationDelta(centerX, centerY, canvasX, canvasY,
                                                deltaX, deltaY)
    IN  /\ selectedHeading' = IF rotationDelta # 0
                                THEN headingAfter(selectedHeading, rotationDelta,
                                                  activeControllers)
                                ELSE selectedHeading
        /\ lastMove' = [canvasX |-> canvasX, canvasY |-> canvasY,
                        deltaX |-> deltaX, deltaY |-> deltaY,
                        rotationDelta |-> rotationDelta,
                        dragging |-> isDragging,
                        emitted |-> (rotationDelta # 0)]
        /\ lastMouseX' = currentX
        /\ lastMouseY' = currentY
        /\ UNCHANGED <<isDragging, centerX, centerY, canvasSize, activeControllers>>

handleMouseDown(x, y) ==
    /\ isDragging' = TRUE
    /\ lastMouseX' = x
    /\ lastMouseY' = y
    /\ updateCenter
    /\ activeControllers' = controllers
    /\ UNCHANGED <<selectedHeading, lastMove, canvasSize>>

\* A move event the handler returns from at once: nothing is computed,
\* the callback is not invoked.
ignoredMove(currentX, currentY) ==
    /\ lastMove' = [canvasX |-> currentX - rect.left, canvasY |-> currentY - rect.top,
                    deltaX |-> 0, deltaY |-> 0, rotationDelta |-> 0,
                    dragging |-> isDragging, emitted |-> FALSE]
    /\ UNCHANGED <<selectedHeading, isDragging, lastMouseX, lastMouseY, centerX, centerY,
                   canvasSize, activeControllers>>

\* handleMouseMove without its first line
handleMouseMove_NoGuard(x, y) == pointerMove(x, y)

handleMouseMove(x, y) ==
    IF ~isDragging
      THEN ignoredMove(x, y)
      ELSE pointerMove(x, y)

\* also the handler of mouseleave
handleMouseUp ==
    /\ isDragging' = FALSE
    /\ UNCHANGED <<selectedHeading, lastMouseX, lastMouseY, centerX, centerY, lastMove,
                   canvasSize, activeControllers>>

\* n is event.touches.length, (x, y) the first touch
handleTouchStart(n, x, y) ==
    IF n > 0
      THEN handleMouseDown(x, y)
      ELSE UNCHANGED <<selectedHeading, compassVars>>

handleTouchMove(n, x, y) ==
    IF ~isDragging \/ n = 0
      THEN ignoredMove(x, y)
      ELSE pointerMove(x, y)

\* also the handler of touchcancel
handleTouchEnd == handleMouseUp

MouseDown ==
    /\ \E x \in Pixels, y \in Pixels : handleMouseDown(x, y)
    /\ UNCHANGED <<seqVars, smVars, canvasVars, busVars, dotVars, appVars>>
MouseMove ==
    /\ \E x \in Pixels, y \in Pixels : handleMouseMove(x, y)
    /\ UNCHANGED <<seqVars, smVars, canvasVars, busVars, dotVars, appVars>>
MouseUp == handleMouseUp /\ UNCHANGED <<seqVars, smVars, canvasVars, busVars, dotVars, appVars>>
TouchStart ==
    /\ \E n \in {0, 1}, x \in Pixels, y \in Pixels : handleTouchStart(n, x, y)
    /\ UNCHANGED <<seqVars, smVars, canvasVars, busVars, dotVars, appVars>>
TouchMove ==
    /\ \E n \in {0, 1}, x \in Pixels, y \in Pixels : handleTouchMove(n, x, y)
    /\ UNCHANGED <<seqVars, smVars, canvasVars, busVars, dotVars, appVars>>
TouchEnd == handleTouchEnd /\ UNCHANGED <<seqVars, smVars, canvasVars, busVars, dotVars, appVars>>

SetSelectedHeading ==
    /\ \E h \in HeadingArgs : selectedHeading' = setSelectedHeading(h)
    /\ UNCHANGED <<compassVars, seqVars, smVars, canvasVars, busVars, dotVars, appVars>>

(***************************************************************************)
(* The application: App, HoverAssistant, GPSManager, UIManager and the     *)
(* parts of DisplayManager they drive.                                     *)
(*                                                                         *)
(* The ids returned by watchPosition and requestAnimationFrame are opaque  *)
(* handles that the browser never hands out twice while one is in use; the *)
(* model takes the least number that is neither in use nor still held by   *)
(* the program.                                                            *)
(***************************************************************************)
\* The samples the geolocation API delivers: latitude and longitude in units
\* of 1e-7 degree (about 1.1 cm of latitude), accuracy in tenths of a meter.
Samples == { [latitude |-> 470000000, longitude |-> 80000000, accuracy |-> 30],
             [latitude |-> 470000100, longitude |-> 80000000, accuracy |-> 120] }

\* The most start() calls awaiting permission at a time, the most active
\* watches, and the most pending restart timers.
MaxPendingStarts == 2
MaxWatches == 2
MaxTimers == 1

Callers == {"orchestrator", "timer"}

NumPending == pendingStarts["orchestrator"] + pendingStarts["timer"]

FreshHandle(inUse) == CHOOSE n \in 1..(Cardinality(inUse) + 1) : n \notin inUse

\* The state once HoverAssistant.init() has run: the managers are constructed,
\* UIManager.init() shows the permission modal, DisplayManager.init() has
\* drawn the first frame and requested the next.  markButton: whether the
\* page's markup has the mark button enabled from the start.
AppConstructed(markButton) ==
    /\ ha_markedPosition = None
    /\ ha_currentPosition = None
    /\ readout = None
    /\ ha_isTracking = FALSE
    /\ gps_watchId = 0
    /\ gps_isTracking = FALSE
    /\ gps_lastPosition = None
    /\ gps_eventTarget = TRUE
    /\ watches = {}
    /\ pendingStarts = [c \in Callers |-> 0]
    /\ timers = 0
    /\ hidden = FALSE
    /\ frames = {1}
    /\ modalShown = TRUE
    /\ markEnabled = markButton
    /\ gpsStatus = "initial"
    /\ errorShown = FALSE
    /\ appAlive = TRUE
    /\ dm_markedPosition = None
    /\ dm_currentPosition = None
    /\ dm_animationId = 1
    /\ dm_ctx = TRUE
    /\ dm_isInitialized = TRUE
    /\ orchStopped = FALSE
    /\ sampleWhileStopped = FALSE
    /\ refAtMark = None
    /\ resetSinceMark = FALSE

(***************************************************************************)
(* GPSManager and the HoverAssistant handlers of its events.               *)
(***************************************************************************)
\* GPSManager.stop(), with onGPSDisconnected, the handler of 'disconnected'
gpsStop ==
    /\ watches' = watches \ {gps_watchId}       \* clearWatch, if watchId !== null
    /\ gps_watchId' = 0
    /\ gps_isTracking' = FALSE
    /\ gpsStatus' = "disconnected"
    /\ markEnabled' = FALSE

\* HoverAssistant.handleError: uiManager.showError
handleError == errorShown' = TRUE

\* The synchronous part of GPSManager.start(), up to await requestPermission().
\* returned: the call returned at once (tracking was already active).
startCall(caller, returned) ==
    IF gps_isTracking
      THEN /\ returned
           /\ UNCHANGED pendingStarts
      ELSE /\ ~returned
           /\ NumPending < MaxPendingStarts
           /\ pendingStarts' = [pendingStarts EXCEPT ![caller] = @ + 1]

\* HoverAssistant.startTracking(): await gpsManager.start(); isTracking = true
startTracking ==
    /\ \E returned \in BOOLEAN :
        /\ startCall("orchestrator", returned)
        /\ ha_isTracking' = IF returned THEN TRUE ELSE ha_isTracking
    /\ orchStopped' = FALSE

\* HoverAssistant.stopTracking()
stopTracking ==
    IF ha_isTracking
      THEN /\ gpsStop
           /\ ha_isTracking' = FALSE
           /\ orchStopped' = TRUE
      ELSE UNCHANGED <<watches, gps_watchId, gps_isTracking, gpsStatus, markEnabled,
                       ha_isTracking, orchStopped>>

\* A click on "grant" in the permission modal: 'ui:permission-granted',
\* HoverAssistant.onPermissionGranted.
PermissionGranted ==
    /\ appAlive /\ modalShown
    /\ modalShown' = FALSE
    /\ startTracking
    /\ UNCHANGED <<ha_markedPosition, ha_currentPosition, readout, gpsVars, watches, timers, hidden,
                   markEnabled, gpsStatus, errorShown, appAlive, dmVars,
                   sampleWhileStopped, refAtMark, resetSinceMark>>

\* A click on "deny": 'ui:permission-denied', HoverAssistant.onPermissionDenied.
PermissionDenied ==
    /\ appAlive /\ modalShown
    /\ modalShown' = FALSE
    /\ handleError
    /\ UNCHANGED <<haVars, gpsVars, envVars, markEnabled, gpsStatus, appAlive, dmVars,
                   probeVars>>

\* requestPermission() resolves with granted: the rest of start()'s try block,
\* and the continuation of the caller.
StartGranted ==
    \E caller \in Callers :
        /\ pendingStarts[caller] > 0
        /\ Cardinality(watches) < MaxWatches
        /\ pendingStarts' = [pendingStarts EXCEPT ![caller] = @ - 1]
        /\ LET id == FreshHandle(watches \cup {gps_watchId})
           IN  /\ watches' = watches \cup {id}
               /\ gps_watchId' = id
        /\ gps_isTracking' = TRUE
        /\ IF gps_eventTarget
             THEN \* emit('connected'): onGPSConnected; then start() resolves
                  /\ gpsStatus' = "connected"
                  /\ markEnabled' = TRUE
                  /\ ha_isTracking' = IF caller = "orchestrator" THEN TRUE ELSE ha_isTracking
             ELSE \* emit throws on the null eventTarget, in the try and in the catch
                  UNCHANGED <<gpsStatus, markEnabled, ha_isTracking>>
        /\ UNCHANGED <<ha_markedPosition, ha_currentPosition, readout, gps_lastPosition,
                       gps_eventTarget, timers, hidden, modalShown, errorShown, appAlive,
                       dmVars, probeVars>>

\* requestPermission() resolves with granted: false, or rejects (position
\* unavailable, timeout): start() emits 'error' and rethrows.
StartFailed ==
    \E caller \in Callers :
        /\ pendingStarts[caller] > 0
        /\ pendingStarts' = [pendingStarts EXCEPT ![caller] = @ - 1]
        /\ IF gps_eventTarget /\ appAlive
             THEN \* onGPSError, then startTracking's catch or 'unhandledrejection'
                  /\ gpsStatus' = "error"
                  /\ handleError
             ELSE UNCHANGED <<gpsStatus, errorShown>>
        /\ UNCHANGED <<haVars, gpsVars, watches, timers, hidden, modalShown, markEnabled,
                       appAlive, dmVars, probeVars>>

\* HoverAssistant.calculateDistance: the haversine formula on a sphere of
\* radius 6371000 m, in thousandths of the arc of 1e-7 degree on that sphere
\* (11.12 micrometers); expanded to first order as haversineDistance below
calculateDistance(pos1, pos2) ==
    LET dLat == pos2.latitude - pos1.latitude
        dLon == pos2.longitude - pos1.longitude
        x == dLon * Sqrt(CosLat(pos1.latitude) * CosLat(pos2.latitude))
        y == dLat * 1000
    IN  [d |-> Hypot(x, y), branch |-> "haversine"]

\* calculateBearing relative to the selected heading instead of true north
calculateBearing_HeadingRelative(pos1, pos2) ==
    LET dLat == pos2.latitude - pos1.latitude
        dLon == pos2.longitude - pos1.longitude
        y == dLon * CosLat(pos2.latitude)
        x == dLat * 1000
    IN  JsRem(Atan2(y, x) - selectedHeading + 2 * FullTurn, FullTurn)

\* HoverAssistant.calculateBearing, in hundredths of a degree: atan2 of the
\* east and the north component (first order in the separation), normalised
\* with (bearing + 360) % 360
calculateBearing(pos1, pos2) ==
    LET dLat == pos2.latitude - pos1.latitude
        dLon == pos2.longitude - pos1.longitude
        y == dLon * CosLat(pos2.latitude)
        x == dLat * 1000
    IN  JsRem(Atan2(y, x) + FullTurn, FullTurn)

\* UIManager.updateCoordinates: distance.toFixed(2) in centimeters and
\* Math.round(bearing) in degrees
updateCoordinates(distance, bearing) ==
    LET v == distance \div 1000            \* arcs of 1e-7 degree: 1.11195 cm each
    IN  [distance |-> v + (v * 112 + 500) \div 1000,
         bearing |-> (bearing + 50) \div 100]

\* What onPositionUpdate hands to the readouts, for every reference and sample:
\* uiManager.updateCoordinates(calculateDistance(...), calculateBearing(...))
SampleReadouts ==
    [ref \in Samples |->
        [pos \in Samples |->
            updateCoordinates(calculateDistance(ref, pos).d, calculateBearing(ref, pos))]]

\* HoverAssistant.onPositionUpdate(position)
onPositionUpdate(position) ==
    /\ ha_currentPosition' = position
    /\ IF ha_markedPosition # None
         THEN \* displayManager.updatePosition(this.markedPosition, position)
              /\ dm_markedPosition' = ha_markedPosition
              /\ dm_currentPosition' = position
              /\ readout' = SampleReadouts[ha_markedPosition][position]
         ELSE UNCHANGED <<dm_markedPosition, dm_currentPosition, readout>>
    /\ gpsStatus' = "connected"
    /\ sampleWhileStopped' = (sampleWhileStopped \/ orchStopped)

\* An active watch delivers a sample: GPSManager.onPositionSuccess.
WatchSample ==
    \E w \in watches, position \in Samples :
        /\ gps_lastPosition' = position
        /\ IF gps_eventTarget
             THEN onPositionUpdate(position)
             ELSE UNCHANGED <<ha_currentPosition, readout, dm_markedPosition, dm_currentPosition,
                              gpsStatus, sampleWhileStopped>>
        /\ UNCHANGED <<ha_markedPosition, ha_isTracking, gps_watchId, gps_isTracking,
                       gps_eventTarget, envVars, modalShown, markEnabled, errorShown,
                       appAlive, dm_animationId, dm_ctx, dm_isInitialized, frames,
                       orchStopped, refAtMark, resetSinceMark>>

\* An active watch reports a failure: GPSManager.onPositionError, onGPSError.
WatchError ==
    /\ watches # {}
    /\ gps_eventTarget
    /\ gpsStatus' = "error"
    /\ handleError
    /\ UNCHANGED <<haVars, gpsVars, envVars, modalShown, markEnabled, appAlive, dmVars,
                   probeVars>>

\* SettingsManager emits 'settings:changed' for the gps category:
\* HoverAssistant.onSettingsChanged, GPSManager.updateSettings.
GpsSettingsChanged ==
    /\ appAlive
    /\ IF gps_isTracking
         THEN /\ timers < MaxTimers
              /\ gpsStop
              /\ timers' = timers + 1
         ELSE UNCHANGED <<watches, gps_watchId, gps_isTracking, gpsStatus, markEnabled,
                          timers>>
    /\ UNCHANGED <<haVars, gps_lastPosition, gps_eventTarget, pendingStarts, hidden,
                   modalShown, errorShown, appAlive, dmVars, probeVars>>

\* The timer of updateSettings fires: this.start()
RestartTimer ==
    /\ timers > 0
    /\ timers' = timers - 1
    /\ \E returned \in BOOLEAN : startCall("timer", returned)
    /\ UNCHANGED <<haVars, gpsVars, watches, hidden, uiVars, dmVars, probeVars>>

\* 'visibilitychange' with document.hidden: app.hoverAssistant.stopTracking()
PageHidden ==
    /\ ~hidden
    /\ hidden' = TRUE
    /\ IF appAlive
         THEN stopTracking
         ELSE UNCHANGED <<watches, gps_watchId, gps_isTracking, gpsStatus, markEnabled,
                          ha_isTracking, orchStopped>>
    /\ UNCHANGED <<ha_markedPosition, ha_currentPosition, readout, gps_lastPosition,
                   gps_eventTarget, pendingStarts, timers, modalShown, errorShown,
                   appAlive, dmVars, sampleWhileStopped, refAtMark, resetSinceMark>>

\* 'visibilitychange' with the page visible: startTracking() if a position is marked
PageVisible ==
    /\ hidden
    /\ hidden' = FALSE
    /\ IF appAlive /\ ha_markedPosition # None
         THEN startTracking
         ELSE UNCHANGED <<pendingStarts, ha_isTracking, orchStopped>>
    /\ UNCHANGED <<ha_markedPosition, ha_currentPosition, readout, gpsVars, watches, timers,
                   uiVars, dmVars, sampleWhileStopped, refAtMark, resetSinceMark>>

(***************************************************************************)
(* The reference point and the render loop.                                *)
(***************************************************************************)
\* onMarkPosition keeping an existing reference instead of overwriting it
onMarkPosition_KeepFirst(current, marked) ==
    IF current # None /\ marked = None THEN current ELSE marked

\* HoverAssistant.onMarkPosition: the new value of markedPosition
onMarkPosition(current, marked) ==
    IF current # None THEN current ELSE marked

\* A click on the enabled mark button: 'ui:mark'.
Mark ==
    /\ appAlive /\ markEnabled
    /\ ha_markedPosition' = onMarkPosition(ha_currentPosition, ha_markedPosition)
    /\ IF ha_currentPosition # None
         THEN \* displayManager.setMarkedPosition(this.markedPosition)
              /\ dm_markedPosition' = ha_markedPosition'
              /\ refAtMark' = ha_currentPosition
              /\ resetSinceMark' = FALSE
         ELSE UNCHANGED <<dm_markedPosition, refAtMark, resetSinceMark>>
    /\ UNCHANGED <<ha_currentPosition, readout, ha_isTracking, gpsVars, envVars, uiVars,
                   dm_currentPosition, dm_animationId, dm_ctx, dm_isInitialized, frames,
                   orchStopped, sampleWhileStopped>>

\* DisplayManager.reset()
DisplayReset ==
    /\ dm_isInitialized
    /\ dm_markedPosition' = None
    /\ dm_currentPosition' = None
    /\ resetSinceMark' = (resetSinceMark \/ ha_markedPosition # None)
    /\ UNCHANGED <<haVars, gpsVars, envVars, uiVars, dm_animationId, dm_ctx,
                   dm_isInitialized, frames, orchStopped, sampleWhileStopped,
                   refAtMark>>

\* draw() calling an unguarded drawPositionDot on every tick:
\* gpsToLocalCoordinates dereferences a null position and throws
draw_Unguarded(ctx, marked, current) ==
    IF ~ctx \/ marked = None \/ current = None
      THEN [failed |-> TRUE, grid |-> ctx, circles |-> ctx, marker |-> FALSE,
            instructions |-> FALSE]
      ELSE [failed |-> FALSE, grid |-> TRUE, circles |-> TRUE, marker |-> TRUE,
            instructions |-> FALSE]

\* DisplayManager.draw(): what it draws, or that it throws (ctx is null)
draw(ctx, marked, current) ==
    IF ~ctx
      THEN [failed |-> TRUE, grid |-> FALSE, circles |-> FALSE, marker |-> FALSE,
            instructions |-> FALSE]
      ELSE [failed |-> FALSE,
            grid |-> TRUE,           \* drawGrid, whatever markedPosition is
            circles |-> TRUE,        \* drawCircles: the range rings and drawCompassRing
            marker |-> (marked # None /\ current # None),
            instructions |-> (marked = None)]

\* What this.draw() does in the current state.
Drawn == draw(dm_ctx, dm_markedPosition, dm_currentPosition)

\* A draw can run: an animation frame is pending, or a theme change reaches
\* onThemeChange of an initialised display.
CanDraw == frames # {} \/ (appAlive /\ dm_isInitialized)

\* A requested animation frame runs animate(): draw(), then
\* this.animationId = requestAnimationFrame(animate).
Frame ==
    \E f \in frames :
        /\ IF Drawn.failed
             THEN /\ frames' = frames \ {f}
                  /\ UNCHANGED dm_animationId
             ELSE LET id == FreshHandle(frames \ {f})
                  IN  /\ frames' = (frames \ {f}) \cup {id}
                      /\ dm_animationId' = id
        /\ UNCHANGED <<haVars, gpsVars, envVars, uiVars, dm_markedPosition,
                       dm_currentPosition, dm_ctx, dm_isInitialized, probeVars>>

\* ThemeManager emits 'themeChanged': DisplayManager.onThemeChange draws at once.
ThemeChanged ==
    /\ appAlive
    /\ dm_isInitialized
    /\ UNCHANGED <<haVars, gpsVars, envVars, uiVars, dm_markedPosition,
                   dm_currentPosition, dm_animationId, dm_ctx, dm_isInitialized, frames,
                   probeVars>>

\* A click on the error modal's close button: hideErrorModal
CloseError ==
    /\ appAlive /\ errorShown
    /\ errorShown' = FALSE
    /\ UNCHANGED <<haVars, gpsVars, envVars, modalShown, markEnabled, gpsStatus,
                   appAlive, dmVars, probeVars>>

\* DisplayManager.stopAnimation()
stopAnimation ==
    /\ frames' = frames \ {dm_animationId}      \* cancelAnimationFrame, if animationId
    /\ dm_animationId' = 0

\* DisplayManager.destroy()
displayDestroy ==
    /\ stopAnimation
    /\ dm_ctx' = FALSE
    /\ dm_isInitialized' = FALSE

\* 'beforeunload': App.destroy, HoverAssistant.destroy (stopTracking, then the
\* destroy of every manager; GPSManager.destroy calls stop() once more).
Destroy ==
    /\ appAlive
    /\ appAlive' = FALSE
    /\ gpsStop
    /\ ha_isTracking' = FALSE
    /\ orchStopped' = (orchStopped \/ ha_isTracking)
    /\ gps_eventTarget' = FALSE
    /\ gps_lastPosition' = None
    /\ displayDestroy
    /\ UNCHANGED <<ha_markedPosition, ha_currentPosition, readout, pendingStarts, timers, hidden,
                   modalShown, errorShown, dm_markedPosition, dm_currentPosition,
                   sampleWhileStopped, refAtMark, resetSinceMark>>

(***************************************************************************)
(* SettingsManager.  A category is modelled by one of its keys (timeout of *)
(* gps, gridSize of display), the other keys keeping their valid defaults; *)
(* a value is a number or a string.                                        *)
(***************************************************************************)
Num(n) == [type |-> "number", n |-> n]
Str == [type |-> "string", n |-> 0]

\* getDefaultSettings()
getDefaultSettings ==
    [gps |-> [timeout |-> Num(10000)], display |-> [gridSize |-> Num(5)]]

\* validateGPSSettings: typeof settings.timeout === 'number' && settings.timeout > 0
validateGPSSettings(settings) ==
    settings.timeout.type = "number" /\ settings.timeout.n > 0

\* validateDisplaySettings: typeof settings.gridSize === 'number' && settings.gridSize > 0
validateDisplaySettings(settings) ==
    settings.gridSize.type = "number" /\ settings.gridSize.n > 0

\* validateSettings(category, settings)
validateSettings(category, settings) ==
    CASE category = "gps" -> validateGPSSettings(settings)
      [] category = "display" -> validateDisplaySettings(settings)
      [] OTHER -> TRUE

\* { ...a, ...b } of two objects
spread(a, b) ==
    [k \in DOMAIN a \cup DOMAIN b |-> IF k \in DOMAIN b THEN b[k] ELSE a[k]]

\* mergeSettings(defaults, userSettings)
mergeSettings(defaults, userSettings) ==
    [category \in DOMAIN defaults \cup DOMAIN userSettings |->
        IF category \in DOMAIN userSettings
          THEN IF category \in DOMAIN defaults
                 THEN spread(defaults[category], userSettings[category])
                 ELSE userSettings[category]
          ELSE defaults[category]]

\* What localStorage holds: nothing, text that JSON.parse rejects, or an object
Corrupt == [corrupt |-> TRUE]

\* loadSettings(): the settings after the constructor
loadSettings(stored) ==
    IF stored = None \/ stored = Corrupt
      THEN getDefaultSettings
      ELSE mergeSettings(getDefaultSettings, stored)

\* new SettingsManager() with the stored item
SettingsConstructed(stored) ==
    /\ sm_storage = stored
    /\ sm_settings = loadSettings(stored)
    /\ sm_last = None

\* The state after the constructors of DisplayManager and CompassController and
\* after DisplayManager.init() (setupCanvas).
InitCompass ==
    /\ selectedHeading = 0
    /\ isDragging = FALSE
    /\ lastMouseX = 0
    /\ lastMouseY = 0
    /\ canvasSize \in CanvasSizes
    /\ activeControllers = 1
    /\ centerX = canvasSize \div 2
    /\ centerY = canvasSize \div 2
    /\ lastMove = None
    /\ seqStart = 0
    /\ seqSum = 0
    /\ seqLen = 0
    /\ pixelsPerMeter = scaleFor(canvasSize, DefaultGridSize)
    /\ localCoords = None
    /\ dot = None
    /\ offset = None
    /\ listeners = [r \in Registries |-> EmptyMap]
    /\ delivered = None
    /\ dm_gridSize = DefaultGridSize
    /\ resizeListeners = 1
    /\ controllers = 1
    /\ SettingsConstructed(None)
    /\ AppConstructed(FALSE)

NextCompass ==
    \/ MouseDown
    \/ MouseMove
    \/ MouseUp
    \/ TouchStart
    \/ TouchMove
    \/ TouchEnd
    \/ SetSelectedHeading

\* The heading input driving the display's heading.
SpecCompass == InitCompass /\ [][NextCompass]_vars

(***************************************************************************)
(* C1: after any sequence of drag deltas and setSelectedHeading calls,     *)
(* starting from heading 0, the selected heading is a value in [0, 360).   *)
(***************************************************************************)
C1_HeadingInRange == selectedHeading >= 0 /\ selectedHeading < FullTurn

(***************************************************************************)
(* C10: calculateRotationDelta is positive for clockwise and negative for  *)
(* counter-clockwise, where in the top half a drag to the right is         *)
(* clockwise, in the bottom half a drag to the left, in the left half a    *)
(* drag upwards and in the right half a drag downwards; the horizontal and *)
(* the vertical contribution are summed.  (Screen y grows downwards, so a  *)
(* drag upwards has deltaY < 0.)                                           *)
(***************************************************************************)
C10_DragDirection ==
    lastMove # None =>
        LET top == lastMove.canvasY < centerY
            left == lastMove.canvasX < centerX
            clockwiseH == IF top THEN lastMove.deltaX ELSE -lastMove.deltaX
            clockwiseV == IF left THEN -lastMove.deltaY ELSE lastMove.deltaY
        IN  (lastMove.canvasY # centerY /\ lastMove.canvasX # centerX) =>
                lastMove.rotationDelta = (clockwiseH + clockwiseV) * Sensitivity

(***************************************************************************)
(* One movement of a drag in progress, from any pointer position to any    *)
(* other, on a grid fine enough for movements in every direction inside    *)
(* each quadrant.                                                          *)
(***************************************************************************)
FinePixels == {0, 300, 600, 900, 1200}

\* The state after a mousedown at any position.
InitDelta ==
    /\ selectedHeading = 0
    /\ isDragging = TRUE
    /\ lastMouseX \in FinePixels
    /\ lastMouseY \in FinePixels
    /\ canvasSize \in CanvasSizes
    /\ activeControllers = 1
    /\ centerX = canvasSize \div 2
    /\ centerY = canvasSize \div 2
    /\ lastMove = None
    /\ seqStart = 0
    /\ seqSum = 0
    /\ seqLen = 0
    /\ pixelsPerMeter = scaleFor(canvasSize, DefaultGridSize)
    /\ localCoords = None
    /\ dot = None
    /\ offset = None
    /\ listeners = [r \in Registries |-> EmptyMap]
    /\ delivered = None
    /\ dm_gridSize = DefaultGridSize
    /\ resizeListeners = 1
    /\ controllers = 1
    /\ SettingsConstructed(None)
    /\ AppConstructed(FALSE)

\* The first mousemove of the drag.
FirstMove ==
    /\ lastMove = None
    /\ \E x \in FinePixels, y \in FinePixels : handleMouseMove(x, y)
    /\ UNCHANGED <<seqVars, smVars, canvasVars, busVars, dotVars, appVars>>

SpecDelta == InitDelta /\ [][FirstMove]_vars

C12_EmitsOnlyWhileDragging ==
    /\ []((lastMove # None /\ lastMove.emitted) => lastMove.dragging)
    /\ [][(lastMove' # lastMove /\ ~isDragging) =>
              (~lastMove'.emitted /\ selectedHeading' = selectedHeading)]_vars

\* a move event arrived after a drag had emitted a delta and was ended
C12_Witness ==
    /\ lastMove # None
    /\ ~lastMove.dragging
    /\ ~isDragging
    /\ selectedHeading \notin {setSelectedHeading(h) : h \in HeadingArgs}

(***************************************************************************)
(* A probe on heading accumulation: deltas are handed to onHeadingChange   *)
(* one after the other, and the heading at the start of the sequence and   *)
(* the sum of its deltas are remembered.                                   *)
(***************************************************************************)
\* The deltas applied, in hundredths of a degree.
Deltas == {37000, -37000, 108000, -72000, 18000}

\* The longest sequence of deltas observed.
MaxSeqLen == 3

BeginSequence ==
    /\ seqStart' = selectedHeading
    /\ seqSum' = 0
    /\ seqLen' = 0
    /\ UNCHANGED <<selectedHeading, compassVars, dotVars, appVars, busVars, canvasVars, smVars>>

ApplyDelta ==
    /\ seqLen < MaxSeqLen
    /\ \E d \in Deltas :
        /\ selectedHeading' = onHeadingChange(selectedHeading, d)
        /\ seqSum' = seqSum + d
    /\ seqLen' = seqLen + 1
    /\ UNCHANGED <<seqStart, compassVars, dotVars, appVars, busVars, canvasVars, smVars>>

NextAccum ==
    \/ BeginSequence
    \/ ApplyDelta

SpecAccum == InitCompass /\ [][NextAccum]_vars

(***************************************************************************)
(* C9: from heading 0 a delta of +370 gives heading 10, and a sequence of  *)
(* deltas whose sum is exactly 360 returns the heading to the value it had *)
(* when the sequence began.                                                *)
(***************************************************************************)
C9_HeadingWraps ==
    /\ (seqStart = 0 /\ seqLen = 1 /\ seqSum = 37000) => selectedHeading = 1000
    /\ (seqStart >= 0 /\ seqStart < FullTurn /\ seqSum = FullTurn) =>
            selectedHeading = seqStart

(***************************************************************************)
(* DisplayManager.drawPositionDot: the rotation of the local offset into   *)
(* the heading frame, for headings that are multiples of 90 degrees, where *)
(* the cosine and the sine are exact.                                      *)
(***************************************************************************)
RightAngles == {0, 9000, 18000, 27000}
Meters == {-10, -5, 0, 5, 10}

\* Math.cos and Math.sin of an angle in hundredths of a degree
Cos(a) ==
    LET n == a % FullTurn
    IN  CASE n = 0 -> 1 [] n = 9000 -> 0 [] n = 18000 -> -1 [] n = 27000 -> 0

Sin(a) ==
    LET n == a % FullTurn
    IN  CASE n = 0 -> 0 [] n = 9000 -> 1 [] n = 18000 -> 0 [] n = 27000 -> -1

drawPositionDot(coords, heading, cX, cY, ppm) ==
    LET offsetX == coords.x
        offsetY == coords.y
        headingRad == -heading
        rotatedX == offsetX * Cos(headingRad) - offsetY * Sin(headingRad)
        rotatedY == offsetX * Sin(headingRad) + offsetY * Cos(headingRad)
    IN  [offset |-> coords, heading |-> heading,
         rotatedX |-> rotatedX, rotatedY |-> rotatedY,
         pixelX |-> cX + rotatedX * ppm,
         pixelY |-> cY - rotatedY * ppm]

\* draw() with a marked and a current position whose local offset is localCoords
DrawPositionDot ==
    /\ localCoords # None
    /\ dot' = drawPositionDot(localCoords, selectedHeading,
                              canvasSize \div 2, canvasSize \div 2, pixelsPerMeter)
    /\ UNCHANGED <<selectedHeading, compassVars, seqVars, smVars, canvasVars, busVars, pixelsPerMeter, localCoords, offset,
                   appVars>>

\* a quarter turn of the heading, either way
QuarterTurn ==
    /\ \E d \in {9000, -9000} : selectedHeading' = onHeadingChange(selectedHeading, d)
    /\ UNCHANGED <<compassVars, seqVars, smVars, canvasVars, busVars, dotVars, appVars>>

InitRotate ==
    /\ selectedHeading \in RightAngles
    /\ isDragging = FALSE
    /\ lastMouseX = 0
    /\ lastMouseY = 0
    /\ canvasSize \in CanvasSizes
    /\ activeControllers = 1
    /\ centerX = canvasSize \div 2
    /\ centerY = canvasSize \div 2
    /\ lastMove = None
    /\ seqStart = 0
    /\ seqSum = 0
    /\ seqLen = 0
    /\ pixelsPerMeter = scaleFor(canvasSize, DefaultGridSize)
    /\ localCoords \in [x : Meters, y : Meters]
    /\ dot = None
    /\ offset = None
    /\ listeners = [r \in Registries |-> EmptyMap]
    /\ delivered = None
    /\ dm_gridSize = DefaultGridSize
    /\ resizeListeners = 1
    /\ controllers = 1
    /\ SettingsConstructed(None)
    /\ AppConstructed(FALSE)

NextRotate ==
    \/ DrawPositionDot
    \/ QuarterTurn

SpecRotate == InitRotate /\ [][NextRotate]_vars

(***************************************************************************)
(* C8: the offset {east: 10, north: 0} rotated with heading 90 degrees, as *)
(* drawPositionDot does, is {x = 0, y = +10}, and the marker is drawn      *)
(* above the center of the screen.                                         *)
(***************************************************************************)
C8_EastAhead ==
    (dot # None /\ dot.offset = [x |-> 10, y |-> 0] /\ dot.heading = 9000) =>
        /\ dot.rotatedX = 0
        /\ dot.rotatedY = 10
        /\ dot.pixelY < canvasSize \div 2

(***************************************************************************)
(* DisplayManager: positions to local offsets.                             *)
(*                                                                         *)
(* Angles are integers in units of 1e-7 degree; the conversion to radians  *)
(* is a change of unit, so the code's thresholds in radians are expressed  *)
(* in that unit.  Lengths are in thousandths of the arc that 1e-7 degree   *)
(* spans on a sphere of the WGS84 equatorial radius a (about 11 micro-     *)
(* meters), factors such as cos(latitude), M / a and N / a are in          *)
(* thousandths.  Math.cos is Bhaskara's rational approximation (within     *)
(* 0.2 percent, positive between the poles); for the separations modelled  *)
(* here (below 0.2 degree) the haversine formula is expanded to first      *)
(* order (sin x = x, atan2(sqrt a, sqrt(1 - a)) = sqrt a), which is exact  *)
(* to 1e-5.  No product is divided after a difference entered it, so a     *)
(* length is zero only where the code's is, and has the code's sign.       *)
(***************************************************************************)
\* 0.001 rad and 1e-8 rad, in units of 1e-7 degree, rounded up:
\* |d| < 0.001 rad exactly when |d| < 572958 units (0.001 rad = 572957.8 units)
TangentLimit == 572958
LinearLimit == 6

\* 1000 * M / a and 1000 * N / a at a latitude: the radii of curvature in the
\* meridian and in the prime vertical, e2 = 0.00669438
Curvature(lat) ==
    LET sin2 == (1000000 - CosLat(lat) * CosLat(lat)) \div 1000
        w == 1000000 - (6694 * sin2) \div 1000      \* 1e6 * (1 - e2 sin^2)
        root == Sqrt(w)                             \* 1000 * sqrt(1 - e2 sin^2)
    IN  [M |-> (993306000 \div (((w \div 1000) * root) \div 1000)) \div 1000,
         N |-> 1000000 \div root]

\* DisplayManager.haversineDistance: the distance and the branch that computed it
haversineDistance(lat1, lon1, lat2, lon2) ==
    LET dLat == lat2 - lat1
        dLon == lon2 - lon1
    IN  IF Abs(dLat) < LinearLimit /\ Abs(dLon) < LinearLimit
          THEN LET avgLat == (lat1 + lat2) \div 2
                   x == dLon * CosLat(avgLat)
                   y == dLat * 1000
               IN  [d |-> Hypot(x, y), branch |-> "linear"]
          ELSE LET x == dLon * Sqrt(CosLat(lat1) * CosLat(lat2))
                   y == dLat * 1000
               IN  [d |-> Hypot(x, y), branch |-> "haversine"]

\* gpsToLocalCoordinates returning grid coordinates with a false easting, as
\* projected map grids do, instead of offsets from the reference
gpsToLocalCoordinates_FalseEasting(referencePos, currentPos) ==
    LET dLat == currentPos.latitude - referencePos.latitude
        dLon == currentPos.longitude - referencePos.longitude
    IN  [x |-> 500000 + ((Curvature(referencePos.latitude).N
                            * CosLat(referencePos.latitude)) \div 1000) * (dLon \div 1000),
         y |-> Curvature(referencePos.latitude).M * (dLat \div 1000),
         branch |-> "tangent"]

\* gpsToLocalCoordinates taking the sign of the fallback's east offset from
\* the latitudes
gpsToLocalCoordinates_SignByLatitude(referencePos, currentPos) ==
    LET dLat == currentPos.latitude - referencePos.latitude
        dLon == currentPos.longitude - referencePos.longitude
    IN  IF Abs(dLat) < TangentLimit /\ Abs(dLon) < TangentLimit
          THEN [x |-> ((Curvature(referencePos.latitude).N
                            * CosLat(referencePos.latitude)) \div 1000) * dLon,
                y |-> Curvature(referencePos.latitude).M * dLat,
                branch |-> "tangent"]
          ELSE LET east == haversineDistance(referencePos.latitude, referencePos.longitude,
                                             referencePos.latitude, currentPos.longitude).d
                   north == haversineDistance(referencePos.latitude, referencePos.longitude,
                                              currentPos.latitude, referencePos.longitude).d
               IN  [x |-> IF currentPos.latitude > referencePos.latitude
                            THEN east ELSE -east,
                    y |-> IF currentPos.latitude > referencePos.latitude
                            THEN north ELSE -north,
                    branch |-> "haversine"]

\* DisplayManager.gpsToLocalCoordinates: {x: east, y: north} and the branch taken
gpsToLocalCoordinates(referencePos, currentPos) ==
    LET dLat == currentPos.latitude - referencePos.latitude
        dLon == currentPos.longitude - referencePos.longitude
    IN  IF Abs(dLat) < TangentLimit /\ Abs(dLon) < TangentLimit
          THEN LET M == Curvature(referencePos.latitude).M
                   N == Curvature(referencePos.latitude).N
               IN  [x |-> ((N * CosLat(referencePos.latitude)) \div 1000) * dLon,
                    y |-> M * dLat,
                    branch |-> "tangent"]
          ELSE LET eastDistance ==
                       haversineDistance(referencePos.latitude, referencePos.longitude,
                                         referencePos.latitude, currentPos.longitude).d
                   northDistance ==
                       haversineDistance(referencePos.latitude, referencePos.longitude,
                                         currentPos.latitude, referencePos.longitude).d
               IN  [x |-> IF currentPos.longitude > referencePos.longitude
                            THEN eastDistance ELSE -eastDistance,
                    y |-> IF currentPos.latitude > referencePos.latitude
                            THEN northDistance ELSE -northDistance,
                    branch |-> "haversine"]

\* The reference positions and the separations (in latitude and in longitude)
\* of the current position from them: zero, one unit, both sides of the two
\* thresholds, and some 13 km.  Latitudes stay one degree away from the poles.
RefLatitudes == {0, 470000000, -338000000, 890000000}
RefLongitudes == {80000000, -1790000000}
Separations == {-1200000, -572958, -572957, -6, -1, 0, 1, 5, 572957, 572958, 1200000}

\* DisplayManager.updatePosition with a reference and a current position
PlacePositions ==
    /\ \E lat \in RefLatitudes, lon \in RefLongitudes,
          dLat \in Separations, dLon \in Separations :
            /\ dm_markedPosition' = [latitude |-> lat, longitude |-> lon, accuracy |-> 30]
            /\ dm_currentPosition' = [latitude |-> lat + dLat, longitude |-> lon + dLon,
                                      accuracy |-> 30]
    /\ offset' = None
    /\ UNCHANGED <<headingVars, compassVars, seqVars, smVars, canvasVars, busVars, pixelsPerMeter, localCoords, dot,
                   haVars, gpsVars, envVars, uiVars, dm_animationId, dm_ctx,
                   dm_isInitialized, frames, probeVars>>

\* drawPositionDot: const localCoords = this.gpsToLocalCoordinates(...)
ConvertPositions ==
    /\ dm_markedPosition # None /\ dm_currentPosition # None
    /\ offset' = [reference |-> dm_markedPosition, current |-> dm_currentPosition,
                  coords |-> gpsToLocalCoordinates(dm_markedPosition, dm_currentPosition)]
    /\ UNCHANGED <<headingVars, compassVars, seqVars, smVars, canvasVars, busVars, pixelsPerMeter, localCoords, dot,
                   appVars>>

NextOffset ==
    \/ PlacePositions
    \/ ConvertPositions

SpecOffset == InitCompass /\ [][NextOffset]_vars

Sign(a) == IF a > 0 THEN 1 ELSE IF a < 0 THEN -1 ELSE 0

(***************************************************************************)
(* C13: the local offset of a position from itself is exactly              *)
(* {east: 0, north: 0}, computed without a division by zero.               *)
(***************************************************************************)
C13_OffsetOfSelfIsZero ==
    (offset # None /\ offset.current = offset.reference) =>
        (offset.coords.x = 0 /\ offset.coords.y = 0)

C13_Witness ==
    /\ offset # None
    /\ offset.current = offset.reference
    /\ offset.reference.latitude # 0
    /\ offset.reference.longitude # 0

(***************************************************************************)
(* C14: in the tangent-plane branch and in the haversine fallback alike,   *)
(* east is positive, negative or zero as the current longitude is greater  *)
(* than, smaller than or equal to the reference longitude, and north       *)
(* follows the latitudes in the same way.                                  *)
(***************************************************************************)
C14_OffsetSigns ==
    offset # None =>
        /\ Sign(offset.coords.x)
               = Sign(offset.current.longitude - offset.reference.longitude)
        /\ Sign(offset.coords.y)
               = Sign(offset.current.latitude - offset.reference.latitude)

\* the fallback branch with the current position to the south-east
C14_Witness ==
    /\ offset # None
    /\ offset.coords.branch = "haversine"
    /\ offset.coords.x > 0
    /\ offset.coords.y < 0

\* The ground distance, in whole meters, of a latitude difference given in
\* units of 1e-7 degree (111195 m per degree on the sphere of calculateDistance)
GroundMeters(dLat) == (Abs(dLat) * 111) \div 10000

(***************************************************************************)
(* C22: the local-tangent-plane branch is taken only for separations below *)
(* about 111 m: two positions whose latitudes are more than about 111 m of *)
(* ground distance apart are handled by the haversine fallback branch.     *)
(***************************************************************************)
C22_TangentBelow111m ==
    (/\ offset # None
     /\ GroundMeters(offset.current.latitude - offset.reference.latitude) > 111)
        => offset.coords.branch = "haversine"

\* drawCompassRing: the directions from the center, in screen coordinates (y
\* grows downward), in which the N and the E label are drawn
drawCompassRing(heading) ==
    LET headingOffset == -heading
        northAngle == headingOffset - 9000
        eastAngle == northAngle + 9000
    IN  [northX |-> Cos(northAngle), northY |-> Sin(northAngle),
         eastX |-> Cos(eastAngle), eastY |-> Sin(eastAngle)]

(***************************************************************************)
(* C27: for every heading the marker and the cardinal labels agree: a      *)
(* position due north of the reference is drawn in the screen direction of *)
(* the N label, a position due east in the direction of the E label (the   *)
(* labels are those draw() puts on the ring in the same tick, with the     *)
(* same selectedHeading).                                                  *)
(***************************************************************************)
C27_MarkerAgreesWithLabels ==
    dot # None =>
        LET ring == drawCompassRing(dot.heading)
            dx == Sign(dot.pixelX - canvasSize \div 2)
            dy == Sign(dot.pixelY - canvasSize \div 2)
        IN  /\ (dot.offset.x = 0 /\ dot.offset.y > 0) =>
                   (dx = ring.northX /\ dy = ring.northY)
            /\ (dot.offset.y = 0 /\ dot.offset.x > 0) =>
                   (dx = ring.eastX /\ dy = ring.eastY)

(***************************************************************************)
(* The distance of the numeric readout, for references and samples at the  *)
(* separations of SpecOffset.                                              *)
(***************************************************************************)
\* The orchestrator holds a reference and receives a sample near it.
PlaceSample ==
    /\ \E lat \in RefLatitudes, lon \in RefLongitudes,
          dLat \in Separations, dLon \in Separations :
            /\ ha_markedPosition' = [latitude |-> lat, longitude |-> lon, accuracy |-> 30]
            /\ ha_currentPosition' = [latitude |-> lat + dLat, longitude |-> lon + dLon,
                                      accuracy |-> 30]
    /\ readout' = None
    /\ UNCHANGED <<headingVars, compassVars, seqVars, smVars, canvasVars, busVars, dotVars,
                   ha_isTracking, gpsVars, envVars, uiVars, dmVars, probeVars>>

\* onPositionUpdate: const distance = this.calculateDistance(markedPosition, position)
MeasureDistance ==
    /\ ha_markedPosition # None /\ ha_currentPosition # None
    /\ readout' = [reference |-> ha_markedPosition, current |-> ha_currentPosition,
                   measured |-> calculateDistance(ha_markedPosition, ha_currentPosition)]
    /\ UNCHANGED <<headingVars, compassVars, seqVars, smVars, canvasVars, busVars, dotVars,
                   ha_markedPosition, ha_currentPosition, ha_isTracking, gpsVars,
                   envVars, uiVars, dmVars, probeVars>>

NextDistance == PlaceSample \/ MeasureDistance

SpecDistance == InitCompass /\ [][NextDistance]_vars

(***************************************************************************)
(* C21: the distance of the numeric readout is computed by the small-angle *)
(* linear approximation, not by the haversine expression, whenever the     *)
(* latitude difference and the longitude difference are both below         *)
(* 1e-8 rad.                                                               *)
(***************************************************************************)
C21_ReadoutUsesLinearBranch ==
    (/\ readout # None
     /\ Abs(readout.current.latitude - readout.reference.latitude) < LinearLimit
     /\ Abs(readout.current.longitude - readout.reference.longitude) < LinearLimit)
        => readout.measured.branch = "linear"

(***************************************************************************)
(* The colour of the marker: DisplayManager.getAccuracyColor and the       *)
(* choice drawPositionDot makes between it and the theme's dot colour.     *)
(* Accuracies are in tenths of a meter; Absent stands for a position       *)
(* without an accuracy (undefined or null).                                *)
(***************************************************************************)
Absent == -1

Themes == {"light", "dark"}

\* DisplayManager.updateThemeColors(): settings.dotColor of the theme
themeDotColor(theme) == IF theme = "light" THEN "#d32f2f" ELSE "#FF5722"

\* DisplayManager.getAccuracyColor(accuracy)
getAccuracyColor(accuracy) ==
    IF accuracy < 50 THEN "#2196F3"
    ELSE IF accuracy < 100 THEN "#FF9800"
    ELSE "#FF5722"

\* JavaScript's truthiness of position.accuracy: undefined, null and 0 are falsy
Truthy(accuracy) == accuracy # Absent /\ accuracy # 0

\* drawPositionDot: const dotColor = this.currentPosition.accuracy ?
\*     this.getAccuracyColor(this.currentPosition.accuracy) : this.settings.dotColor
dotColor(accuracy, theme) ==
    IF Truthy(accuracy) THEN getAccuracyColor(accuracy) ELSE themeDotColor(theme)

Accuracies == {Absent, 0, 1, 25, 49, 50, 51, 75, 99, 100, 101, 500, 10000}

\* updatePosition(markedPosition, currentPosition) with a sample of any accuracy
UpdateAccuracy ==
    \E markedPosition \in Samples, currentPosition \in Samples, a \in Accuracies :
        /\ dm_markedPosition' = markedPosition
        /\ dm_currentPosition' = [currentPosition EXCEPT !.accuracy = a]
        /\ dot' = None
        /\ UNCHANGED <<headingVars, compassVars, seqVars, smVars, canvasVars, busVars, pixelsPerMeter, localCoords,
                       offset, haVars, gpsVars, envVars, uiVars, dm_animationId,
                       dm_ctx, dm_isInitialized, frames, probeVars>>

\* draw() reaches drawPositionDot under either theme and fills the marker
ColourDot ==
    \E theme \in Themes :
        /\ dm_markedPosition # None
        /\ dm_currentPosition # None
        /\ dot' = [accuracy |-> dm_currentPosition.accuracy,
                   theme |-> theme,
                   color |-> dotColor(dm_currentPosition.accuracy, theme)]
        /\ UNCHANGED <<headingVars, compassVars, seqVars, smVars, canvasVars, busVars, pixelsPerMeter, localCoords,
                       offset, appVars, probeVars>>

NextColour == UpdateAccuracy \/ ColourDot

SpecColour == InitCompass /\ [][NextColour]_vars

(***************************************************************************)
(* C16: the marker of a position whose accuracy a is a number >= 0 has the *)
(* tier colour of a (first tier below 5 m, second tier from 5 m to below   *)
(* 10 m, third tier otherwise); only an absent accuracy gives the theme's  *)
(* default dot colour.                                                     *)
(***************************************************************************)
C16_TierColour ==
    dot # None =>
        dot.color = IF dot.accuracy = Absent THEN themeDotColor(dot.theme)
                    ELSE IF dot.accuracy < 50 THEN "#2196F3"
                    ELSE IF dot.accuracy < 100 THEN "#FF9800"
                    ELSE "#FF5722"

(***************************************************************************)
(* The event registries of ThemeManager and HoverAssistant: a Map from an  *)
(* event name to the array of its callbacks.  A Map is a function whose    *)
(* domain is the set of the keys it has; a callback is known by its name   *)
(* and either returns or throws when it is called.                         *)
(***************************************************************************)
Events == {"themeChanged", "positionMarked"}
Callbacks == {"a", "b", "c"}
Throwing == {"b"}

\* The most callbacks registered in the two registries together.
MaxListeners == 3

\* addEventListener(event, callback)
addEventListener(map, event, callback) ==
    IF event \notin DOMAIN map
      THEN [e \in DOMAIN map \cup {event} |->
                IF e = event THEN <<callback>> ELSE map[e]]
      ELSE [map EXCEPT ![event] = Append(@, callback)]

\* listeners.indexOf(callback): the first index, 0 when there is none
indexOf(list, callback) ==
    IF \E i \in 1..Len(list) : list[i] = callback
      THEN CHOOSE i \in 1..Len(list) :
               /\ list[i] = callback
               /\ \A j \in 1..(i - 1) : list[j] # callback
      ELSE 0

\* listeners.splice(index, 1)
splice(list, index) ==
    [i \in 1..(Len(list) - 1) |-> IF i < index THEN list[i] ELSE list[i + 1]]

\* ThemeManager.removeEventListener(event, callback)
removeEventListener(map, event, callback) ==
    IF event \in DOMAIN map /\ indexOf(map[event], callback) > 0
      THEN [map EXCEPT ![event] = splice(@, indexOf(@, callback))]
      ELSE map

RECURSIVE forEachCaught(_, _)
\* forEach(callback => { try { callback(data) } catch (error) { console.error } })
forEachCaught(list, i) ==
    IF i > Len(list) THEN <<>>
    ELSE <<[callback |-> list[i],
            outcome |-> IF list[i] \in Throwing THEN "caught" ELSE "returned"]>>
         \o forEachCaught(list, i + 1)

RECURSIVE forEachUncaught(_, _)
\* forEach without the try: the first exception ends the iteration
forEachUncaught(list, i) ==
    IF i > Len(list) THEN <<>>
    ELSE IF list[i] \in Throwing THEN <<[callback |-> list[i], outcome |-> "thrown"]>>
    ELSE <<[callback |-> list[i], outcome |-> "returned"]>> \o forEachUncaught(list, i + 1)

\* an emit that lets an exception of a callback escape
emit_Uncaught(map, event) ==
    IF event \in DOMAIN map THEN forEachUncaught(map[event], 1) ELSE <<>>

\* emit(event, data): the calls it makes, in order
emit(map, event) ==
    IF event \in DOMAIN map THEN forEachCaught(map[event], 1) ELSE <<>>

NumListeners ==
    LET RECURSIVE total(_)
        total(S) == IF S = {} THEN 0
                    ELSE LET x == CHOOSE x \in S : TRUE
                         IN  Len(listeners[x[1]][x[2]]) + total(S \ {x})
    IN  total({x \in Registries \X Events : x[2] \in DOMAIN listeners[x[1]]})

AddEventListener ==
    \E r \in Registries, e \in Events, cb \in Callbacks :
        /\ NumListeners < MaxListeners
        /\ listeners' = [listeners EXCEPT ![r] = addEventListener(@, e, cb)]
        /\ delivered' = None
        /\ UNCHANGED <<headingVars, compassVars, seqVars, smVars, canvasVars, dotVars, appVars>>

RemoveEventListener ==
    \E e \in Events, cb \in Callbacks :
        /\ listeners' = [listeners EXCEPT
                            !["ThemeManager"] = removeEventListener(@, e, cb)]
        /\ delivered' = None
        /\ UNCHANGED <<headingVars, compassVars, seqVars, smVars, canvasVars, dotVars, appVars>>

\* destroy(): this.eventListeners.clear()
ClearListeners ==
    \E r \in Registries :
        /\ listeners' = [listeners EXCEPT ![r] = EmptyMap]
        /\ delivered' = None
        /\ UNCHANGED <<headingVars, compassVars, seqVars, smVars, canvasVars, dotVars, appVars>>

Emit ==
    \E r \in Registries, e \in Events :
        /\ delivered' = [registry |-> r,
                         event |-> e,
                         registered |-> IF e \in DOMAIN listeners[r]
                                          THEN listeners[r][e] ELSE <<>>,
                         calls |-> emit(listeners[r], e)]
        /\ UNCHANGED <<headingVars, compassVars, seqVars, smVars, canvasVars, dotVars, appVars, listeners>>

NextEmit == AddEventListener \/ RemoveEventListener \/ ClearListeners \/ Emit

SpecEmit == InitCompass /\ [][NextEmit]_vars

(***************************************************************************)
(* C17: an emission of ThemeManager.emit or HoverAssistant.emit calls      *)
(* every callback registered for the event once, in registration order,    *)
(* also when an earlier callback of that emission throws.                  *)
(***************************************************************************)
C17_EveryHandlerCalled ==
    delivered # None =>
        /\ Len(delivered.calls) = Len(delivered.registered)
        /\ \A i \in 1..Len(delivered.registered) :
               delivered.calls[i].callback = delivered.registered[i]

\* HoverAssistant emitted to a throwing callback followed by another one
C17_Witness ==
    /\ delivered # None
    /\ delivered.registry = "HoverAssistant"
    /\ Len(delivered.calls) >= 2
    /\ \E i \in 1..(Len(delivered.calls) - 1) :
           /\ delivered.calls[i].outcome = "caught"
           /\ delivered.calls[i + 1].outcome = "returned"

(***************************************************************************)
(* Emissions of ThemeManager whose callbacks call removeEventListener.     *)
(* Array.prototype.forEach reads the length once, visits the indices below *)
(* it in order and skips an index the array no longer has.                 *)
(***************************************************************************)
RECURSIVE forEachLive(_, _, _, _, _)
\* forEach over the array of the event while the callback `remover`, when it is
\* called, does removeEventListener(event, target): k is the index (from 1), len
\* the length at the start; the result is the calls made and the array left
forEachLive(list, k, len, remover, target) ==
    IF k > len THEN [calls |-> <<>>, list |-> list]
    ELSE IF k > Len(list) THEN forEachLive(list, k + 1, len, remover, target)
    ELSE LET callback == list[k]
             after == IF callback = remover /\ indexOf(list, target) > 0
                        THEN splice(list, indexOf(list, target))
                        ELSE list
             rest == forEachLive(after, k + 1, len, remover, target)
         IN  [calls |-> <<[callback |-> callback,
                           outcome |-> IF callback \in Throwing THEN "caught"
                                                                ELSE "returned"]>>
                        \o rest.calls,
              list |-> rest.list]

\* ThemeManager.emit(event) with a callback that removes itself or another one
EmitRemoving ==
    \E e \in Events, remover \in Callbacks, target \in Callbacks :
        /\ e \in DOMAIN listeners["ThemeManager"]
        /\ LET registered == listeners["ThemeManager"][e]
               result == forEachLive(registered, 1, Len(registered), remover, target)
           IN  /\ listeners' = [listeners EXCEPT !["ThemeManager"][e] = result.list]
               /\ delivered' = [registry |-> "ThemeManager",
                                event |-> e,
                                registered |-> registered,
                                calls |-> result.calls,
                                remaining |-> result.list]
        /\ UNCHANGED <<headingVars, compassVars, seqVars, smVars, canvasVars, dotVars,
                       appVars>>

NextEmitRemove == AddEventListener \/ RemoveEventListener \/ EmitRemoving

SpecEmitRemove == InitCompass /\ [][NextEmitRemove]_vars

(***************************************************************************)
(* C30: in an emission of ThemeManager in which a callback removes itself  *)
(* or another callback with removeEventListener, no other callback that is *)
(* still registered is skipped: every callback left in the registry after  *)
(* the emission was called in it.                                          *)
(***************************************************************************)
C30_NoHandlerSkipped ==
    (delivered # None /\ "remaining" \in DOMAIN delivered) =>
        \A i \in 1..Len(delivered.remaining) :
            \E j \in 1..Len(delivered.calls) :
                delivered.calls[j].callback = delivered.remaining[i]

(***************************************************************************)
(* The application as index.js wires it: the events of the page, of the    *)
(* geolocation API, of the timers and of the animation clock.              *)
(***************************************************************************)
Init ==
    /\ selectedHeading = 0
    /\ isDragging = FALSE
    /\ lastMouseX = 0
    /\ lastMouseY = 0
    /\ canvasSize \in CanvasSizes
    /\ activeControllers = 1
    /\ centerX = canvasSize \div 2
    /\ centerY = canvasSize \div 2
    /\ lastMove = None
    /\ seqStart = 0
    /\ seqSum = 0
    /\ seqLen = 0
    /\ pixelsPerMeter = scaleFor(canvasSize, DefaultGridSize)
    /\ localCoords = None
    /\ dot = None
    /\ offset = None
    /\ listeners = [r \in Registries |-> EmptyMap]
    /\ delivered = None
    /\ dm_gridSize = DefaultGridSize
    /\ resizeListeners = 1
    /\ controllers = 1
    /\ SettingsConstructed(None)
    /\ \E markButton \in BOOLEAN : AppConstructed(markButton)

otherVars == <<headingVars, compassVars, seqVars, dotVars, busVars, canvasVars,
               smVars>>

Next ==
    \/ PermissionGranted /\ UNCHANGED otherVars
    \/ PermissionDenied /\ UNCHANGED otherVars
    \/ StartGranted /\ UNCHANGED otherVars
    \/ StartFailed /\ UNCHANGED otherVars
    \/ WatchSample /\ UNCHANGED otherVars
    \/ WatchError /\ UNCHANGED otherVars
    \/ GpsSettingsChanged /\ UNCHANGED otherVars
    \/ RestartTimer /\ UNCHANGED otherVars
    \/ PageHidden /\ UNCHANGED otherVars
    \/ PageVisible /\ UNCHANGED otherVars
    \/ Mark /\ UNCHANGED otherVars
    \/ DisplayReset /\ UNCHANGED otherVars
    \/ Frame /\ UNCHANGED otherVars
    \/ ThemeChanged /\ UNCHANGED otherVars
    \/ CloseError /\ UNCHANGED otherVars
    \/ Destroy /\ UNCHANGED otherVars

Spec == Init /\ [][Next]_vars

(***************************************************************************)
(* C2: after stopTracking() has stopped the tracking, no position sample   *)
(* reaches HoverAssistant.onPositionUpdate until startTracking() is called *)
(* again.                                                                  *)
(***************************************************************************)
C2_NoSampleAfterStop == ~sampleWhileStopped

(***************************************************************************)
(* C4: at most one geolocation watch is active, it is the one watchId      *)
(* refers to, and when watchId is null (after stop() or destroy()) no      *)
(* watch is active.                                                        *)
(***************************************************************************)
C4_NoDanglingWatch == 0 \notin watches /\ watches \subseteq {gps_watchId}

(***************************************************************************)
(* C18: every failure of the position source (a start() that fails, an     *)
(* error of the watch) puts up the error notice, no failure makes the core *)
(* start or restart tracking (no start() call, no restart timer, no new    *)
(* watch), and after a failed start the position source is not tracking    *)
(* and no watch is active.                                                 *)
(***************************************************************************)
C18_FailureReported ==
    [][(appAlive /\ gps_eventTarget /\ (StartFailed \/ WatchError)) =>
          /\ errorShown'
          /\ \A caller \in Callers : pendingStarts'[caller] <= pendingStarts[caller]
          /\ timers' = timers
          /\ watches' \subseteq watches
          /\ StartFailed => (~gps_isTracking' /\ watches' = {})]_vars

\* the notice and the absence of a restart, without the last part of C18
NoticeNoRestart ==
    [][(appAlive /\ gps_eventTarget /\ (StartFailed \/ WatchError)) =>
          /\ errorShown'
          /\ \A caller \in Callers : pendingStarts'[caller] <= pendingStarts[caller]
          /\ timers' = timers
          /\ watches' \subseteq watches]_vars

(***************************************************************************)
(* C19: on every render tick in which no reference exists the render       *)
(* engine draws the textual instruction instead of the grid content: the   *)
(* grid, the range rings and the compass ring are not drawn in that tick.  *)
(***************************************************************************)
C19_InstructionInsteadOfGrid ==
    (frames # {} /\ dm_markedPosition = None /\ ~Drawn.failed) =>
        /\ Drawn.instructions
        /\ ~Drawn.grid
        /\ ~Drawn.circles

(***************************************************************************)
(* C25: whenever the mark button is enabled, a mark press establishes a    *)
(* reference: handling 'ui:mark' leaves the orchestrator with a            *)
(* markedPosition.  Stated for the button enabled by onGPSConnected, the   *)
(* only place that enables it (the markup of the page may enable it from   *)
(* the beginning).                                                         *)
(***************************************************************************)
C25_MarkEstablishesReference ==
    (appAlive /\ markEnabled /\ gpsStatus = "connected") =>
        onMarkPosition(ha_currentPosition, ha_markedPosition) # None

(***************************************************************************)
(* C5: after a reset from HasReference, and until the next mark, the       *)
(* orchestrator has no reference point and the display has neither a       *)
(* reference nor a current position to draw the marker from.               *)
(***************************************************************************)
C5_ResetClearsReference ==
    resetSinceMark =>
        /\ ha_markedPosition = None
        /\ dm_markedPosition = None
        /\ dm_currentPosition = None

(***************************************************************************)
(* C6: the reference point is the sample that was the latest one received  *)
(* when the last mark was handled (none before the first such mark); no    *)
(* later position sample modifies it, a later mark overwrites it.          *)
(***************************************************************************)
C6_ReferenceIsMarkedSample == ha_markedPosition = refAtMark

\* a second sample arrived after a mark, and a mark overwrote an earlier reference
C6_Witness ==
    /\ refAtMark # None
    /\ ha_currentPosition # None
    /\ ha_currentPosition # refAtMark

(***************************************************************************)
(* C7: in every state without a reference point (in the display or in the  *)
(* orchestrator) in which a draw can run, the draw puts no position marker *)
(* on the canvas and does not fail, whether or not a current position      *)
(* exists.                                                                 *)
(***************************************************************************)
C7_NoReferenceNoMarker ==
    (CanDraw /\ (dm_markedPosition = None \/ ha_markedPosition = None)) =>
        (~Drawn.marker /\ ~Drawn.failed)

\* a render tick is due while a current position exists and no reference point
C7_Witness ==
    /\ frames # {}
    /\ dm_markedPosition = None
    /\ ha_markedPosition = None
    /\ ha_currentPosition # None
    /\ Drawn.instructions

(***************************************************************************)
(* The DisplayManager's public operations called in any order.             *)
(***************************************************************************)
MaxFrames == 3

\* DisplayManager.startAnimation(): animate() runs at once
StartAnimation ==
    /\ Cardinality(frames) < MaxFrames
    /\ IF Drawn.failed
         THEN UNCHANGED <<frames, dm_animationId>>
         ELSE LET id == FreshHandle(frames)
              IN  /\ frames' = frames \cup {id}
                  /\ dm_animationId' = id
    /\ UNCHANGED <<haVars, gpsVars, envVars, uiVars, dm_markedPosition,
                   dm_currentPosition, dm_ctx, dm_isInitialized, probeVars>>

StopAnimation ==
    /\ stopAnimation
    /\ UNCHANGED <<haVars, gpsVars, envVars, uiVars, dm_markedPosition,
                   dm_currentPosition, dm_ctx, dm_isInitialized, probeVars>>

DisplayDestroy ==
    /\ displayDestroy
    /\ UNCHANGED <<haVars, gpsVars, envVars, uiVars, dm_markedPosition,
                   dm_currentPosition, probeVars>>

\* DisplayManager.setMarkedPosition(position)
SetMarkedPosition ==
    \E position \in Samples :
        /\ dm_markedPosition' = position
        /\ UNCHANGED <<haVars, gpsVars, envVars, uiVars, dm_currentPosition,
                       dm_animationId, dm_ctx, dm_isInitialized, frames,
                       probeVars>>

\* DisplayManager.updatePosition(markedPosition, currentPosition)
UpdatePosition ==
    \E markedPosition \in Samples, currentPosition \in Samples :
        /\ dm_markedPosition' = markedPosition
        /\ dm_currentPosition' = currentPosition
        /\ UNCHANGED <<haVars, gpsVars, envVars, uiVars, dm_animationId, dm_ctx,
                       dm_isInitialized, frames, probeVars>>

NextAnim ==
    \/ StartAnimation /\ UNCHANGED otherVars
    \/ StopAnimation /\ UNCHANGED otherVars
    \/ DisplayDestroy /\ UNCHANGED otherVars
    \/ Frame /\ UNCHANGED otherVars
    \/ SetMarkedPosition /\ UNCHANGED otherVars
    \/ UpdatePosition /\ UNCHANGED otherVars
    \/ DisplayReset /\ UNCHANGED otherVars

SpecAnim == Init /\ [][NextAnim]_vars

(***************************************************************************)
(* C3: after any sequence of startAnimation, stopAnimation and destroy at  *)
(* most one animation-frame continuation is pending, and none is pending   *)
(* once stopAnimation has cleared animationId.                             *)
(***************************************************************************)
C3_OneRenderLoop ==
    /\ Cardinality(frames) <= 1
    /\ dm_animationId = 0 => frames = {}

(***************************************************************************)
(* The scale of the display: window resizes and updates of the display     *)
(* settings.                                                               *)
(***************************************************************************)
ResizedSizes == {400, 800, 1200, 1600}
GridSizes == {2, 5, 10, 20}

\* The most 'resize' listeners on window (every setupCanvas adds one more).
MaxResizeListeners == 4

\* A 'resize' event of window: every handleResize listener runs setupCanvas(),
\* which sets the canvas to the square of the container, recomputes
\* pixelsPerMeter, adds one more 'resize' listener and one more
\* CompassController on the canvas.  The controller of compassVars is the
\* first one: it keeps its centre until its next mousedown.
Resize ==
    \E size \in ResizedSizes :
        /\ dm_ctx
        /\ resizeListeners < MaxResizeListeners
        /\ canvasSize' = size
        /\ pixelsPerMeter' = scaleFor(size, dm_gridSize)
        /\ resizeListeners' = 2 * resizeListeners
        /\ controllers' = controllers + resizeListeners
        /\ UNCHANGED <<headingVars, isDragging, lastMouseX, lastMouseY, centerX, centerY,
                       lastMove, activeControllers, seqVars, smVars, localCoords, dot, offset,
                       appVars, busVars, dm_gridSize>>

\* SettingsManager emits 'settings:changed' for the display category:
\* HoverAssistant.onSettingsChanged, DisplayManager.updateSettings.
DisplaySettingsChanged ==
    \E size \in GridSizes :
        /\ appAlive
        /\ dm_gridSize' = size
        /\ UNCHANGED <<headingVars, compassVars, seqVars, smVars, dotVars, appVars, busVars,
                       resizeListeners, controllers>>

NextScale == Resize \/ DisplaySettingsChanged

SpecScale == Init /\ [][NextScale]_vars

(***************************************************************************)
(* C20: once the display is initialised the pixels-per-meter scale is      *)
(* 0.9 x canvas size / (2 x the grid half-extent of the settings), after   *)
(* any sequence of resizes and display-settings updates.                   *)
(***************************************************************************)
C20_ScaleFollowsGrid ==
    dm_isInitialized => pixelsPerMeter = scaleFor(canvasSize, dm_gridSize)

(***************************************************************************)
(* Resizes and drags: every controller setupCanvas has put on the canvas   *)
(* receives the pointer events.                                            *)
(***************************************************************************)
NextResizeDrag ==
    \/ Resize
    \/ MouseDown
    \/ FirstMove

SpecResizeDrag == InitCompass /\ [][NextResizeDrag]_vars

(***************************************************************************)
(* C23: after any number of window resize events exactly one               *)
(* CompassController and one resize listener are attached, and a single    *)
(* pointer movement during a drag changes the heading by exactly one       *)
(* rotation delta.                                                         *)
(***************************************************************************)
C23_OneControllerOneListener ==
    /\ [](dm_isInitialized => (controllers = 1 /\ resizeListeners = 1))
    /\ [][(lastMove' # lastMove /\ lastMove'.dragging) =>
            selectedHeading' = IF lastMove'.rotationDelta # 0
                                 THEN onHeadingChange(selectedHeading,
                                                      lastMove'.rotationDelta)
                                 ELSE selectedHeading]_vars

\* the second part of C23 alone: one rotation delta per movement
OneDeltaPerMove ==
    [][(lastMove' # lastMove /\ lastMove'.dragging) =>
            selectedHeading' = IF lastMove'.rotationDelta # 0
                                 THEN onHeadingChange(selectedHeading,
                                                      lastMove'.rotationDelta)
                                 ELSE selectedHeading]_vars

(***************************************************************************)
(* Hiding and showing the page while the permission is granted: every      *)
(* start() call is granted, and the page does not stay hidden forever.     *)
(***************************************************************************)
NextVisible ==
    \/ PermissionGranted /\ UNCHANGED otherVars
    \/ StartGranted /\ UNCHANGED otherVars
    \/ WatchSample /\ UNCHANGED otherVars
    \/ Mark /\ UNCHANGED otherVars
    \/ PageHidden /\ UNCHANGED otherVars
    \/ PageVisible /\ UNCHANGED otherVars

SpecVisible ==
    /\ Init
    /\ [][NextVisible]_vars
    /\ WF_vars(StartGranted /\ UNCHANGED otherVars)
    /\ WF_vars(PageVisible /\ UNCHANGED otherVars)

(***************************************************************************)
(* C24: if GPS tracking was active when the page became hidden, then after *)
(* the page becomes visible again tracking eventually becomes active       *)
(* again, whether or not a reference point had been marked.                *)
(***************************************************************************)
C24_TrackingResumes ==
    (hidden /\ orchStopped) ~> (~hidden /\ gps_isTracking)

\* C24 for the pages hidden with a reference point marked
ResumesWithReference ==
    (hidden /\ orchStopped /\ ha_markedPosition # None) ~> (~hidden /\ gps_isTracking)

(***************************************************************************)
(* Tracking, marking and turning the heading, side by side.                *)
(***************************************************************************)
NextReadout ==
    \/ PermissionGranted /\ UNCHANGED otherVars
    \/ StartGranted /\ UNCHANGED otherVars
    \/ WatchSample /\ UNCHANGED otherVars
    \/ Mark /\ UNCHANGED otherVars
    \/ WatchError /\ UNCHANGED otherVars
    \/ CloseError /\ UNCHANGED otherVars
    \/ QuarterTurn
    \/ SetSelectedHeading

SpecReadout == Init /\ [][NextReadout]_vars

(***************************************************************************)
(* C15: the distance and bearing readouts are those of the latest sample   *)
(* from a reference point, the bearing counted from true north whatever    *)
(* the selected heading is (the samples lie on one meridian: the bearing   *)
(* is 0 to the north and 180 to the south), and no heading delta changes   *)
(* them.                                                                   *)
(***************************************************************************)
C15_ReadoutIgnoresHeading ==
    /\ [](readout # None =>
            \E ref \in Samples :
                /\ readout.bearing
                      = IF ha_currentPosition.latitude >= ref.latitude THEN 0 ELSE 180
                /\ (readout.distance = 0) = (ha_currentPosition.latitude = ref.latitude))
    /\ [][selectedHeading' # selectedHeading => readout' = readout]_vars

\* the heading was turned while the readouts show a sample south of the reference
C15_Witness ==
    /\ readout # None
    /\ readout.bearing = 180
    /\ readout.distance > 0
    /\ selectedHeading # 0

(***************************************************************************)
(* C26: whenever the orchestrator holds a reference point and a current    *)
(* position, the display holds the same two positions, the next render     *)
(* tick draws the marker and the readouts are those of that pair; also     *)
(* immediately after a mark, before any further sample.                    *)
(***************************************************************************)
C26_DisplayFollowsOrchestrator ==
    (ha_markedPosition # None /\ ha_currentPosition # None) =>
        /\ dm_markedPosition = ha_markedPosition
        /\ dm_currentPosition = ha_currentPosition
        /\ Drawn.marker
        /\ readout = SampleReadouts[ha_markedPosition][ha_currentPosition]

(***************************************************************************)
(* C28: whenever no start() call is in flight (none awaits the permission, *)
(* and no restart timer is about to call one), HoverAssistant.isTracking   *)
(* equals GPSManager.isTracking.                                           *)
(***************************************************************************)
C28_TrackingFlagsAgree ==
    (appAlive /\ NumPending = 0 /\ timers = 0) => ha_isTracking = gps_isTracking

(***************************************************************************)
(* SettingsManager: construction with any stored item, updates, resets and *)
(* imports.                                                                *)
(***************************************************************************)
Values == {Num(0), Num(5), Num(10000), Str}

\* The objects a stored or an imported JSON text can hold
StoredObjects == [gps : [timeout : Values], display : [gridSize : Values]]
StoredItems == {None, Corrupt} \cup StoredObjects

\* The state after new SettingsManager(), whatever localStorage holds.
InitSettings ==
    /\ selectedHeading = 0
    /\ isDragging = FALSE
    /\ lastMouseX = 0
    /\ lastMouseY = 0
    /\ canvasSize \in CanvasSizes
    /\ activeControllers = 1
    /\ centerX = canvasSize \div 2
    /\ centerY = canvasSize \div 2
    /\ lastMove = None
    /\ seqStart = 0
    /\ seqSum = 0
    /\ seqLen = 0
    /\ pixelsPerMeter = scaleFor(canvasSize, DefaultGridSize)
    /\ localCoords = None
    /\ dot = None
    /\ offset = None
    /\ listeners = [r \in Registries |-> EmptyMap]
    /\ delivered = None
    /\ dm_gridSize = DefaultGridSize
    /\ resizeListeners = 1
    /\ controllers = 1
    /\ \E stored \in StoredItems : SettingsConstructed(stored)
    /\ AppConstructed(FALSE)

\* updateSettings(category, newSettings)
UpdateSettings ==
    \E category \in {"gps", "display"}, value \in Values :
        LET newSettings == IF category = "gps" THEN [timeout |-> value]
                                               ELSE [gridSize |-> value]
            oldSettings == sm_settings[category]
            updated == spread(sm_settings[category], newSettings)
        IN  IF validateSettings(category, updated)
              THEN \* saveSettings(), emit('settings:changed')
                   /\ sm_settings' = [sm_settings EXCEPT ![category] = updated]
                   /\ sm_storage' = sm_settings'
                   /\ sm_last' = [call |-> "updateSettings", rejected |-> FALSE,
                                  prior |-> sm_settings, saved |-> TRUE,
                                  emitted |-> TRUE]
              ELSE \* this.settings[category] = oldSettings; throw
                   /\ sm_settings' = [sm_settings EXCEPT ![category] = oldSettings]
                   /\ sm_storage' = sm_storage
                   /\ sm_last' = [call |-> "updateSettings", rejected |-> TRUE,
                                  prior |-> sm_settings, saved |-> FALSE,
                                  emitted |-> FALSE]

\* resetSettings(category) and resetSettings()
ResetSettings ==
    \E category \in {"gps", "display", "all"} :
        /\ sm_settings' = IF category = "all"
                            THEN getDefaultSettings
                            ELSE [sm_settings EXCEPT
                                     ![category] = getDefaultSettings[category]]
        /\ sm_storage' = sm_settings'
        /\ sm_last' = [call |-> "resetSettings", rejected |-> FALSE,
                       prior |-> sm_settings, saved |-> TRUE, emitted |-> TRUE]

\* importSettings(jsonString)
ImportSettings ==
    \E imported \in {Corrupt} \cup StoredObjects :
        LET merged == mergeSettings(getDefaultSettings, imported)
        IN  IF imported # Corrupt
               /\ \A category \in DOMAIN merged :
                      validateSettings(category, merged[category])
              THEN /\ sm_settings' = merged
                   /\ sm_storage' = merged
                   /\ sm_last' = [call |-> "importSettings", rejected |-> FALSE,
                                  prior |-> sm_settings, saved |-> TRUE,
                                  emitted |-> TRUE]
              ELSE /\ UNCHANGED <<sm_settings, sm_storage>>
                   /\ sm_last' = [call |-> "importSettings", rejected |-> TRUE,
                                  prior |-> sm_settings, saved |-> FALSE,
                                  emitted |-> FALSE]

settingsOtherVars == <<headingVars, compassVars, seqVars, dotVars, appVars, busVars,
                       canvasVars>>

NextSettings ==
    \/ UpdateSettings /\ UNCHANGED settingsOtherVars
    \/ ResetSettings /\ UNCHANGED settingsOtherVars
    \/ ImportSettings /\ UNCHANGED settingsOtherVars

SpecSettings == InitSettings /\ [][NextSettings]_vars

(***************************************************************************)
(* C29: in every reachable state of SettingsManager (after construction    *)
(* with any stored value, after updateSettings, resetSettings and          *)
(* importSettings) the settings of each category satisfy validateSettings, *)
(* and a rejected updateSettings leaves the settings as they were, saves   *)
(* nothing and emits no 'settings:changed' event.                          *)
(***************************************************************************)
C29_SettingsAlwaysValid ==
    /\ \A category \in DOMAIN sm_settings :
           validateSettings(category, sm_settings[category])
    /\ (sm_last # None /\ sm_last.call = "updateSettings" /\ sm_last.rejected) =>
           /\ sm_settings = sm_last.prior
           /\ ~sm_last.saved
           /\ ~sm_last.emitted

\* the second part of C29 alone: what a rejected updateSettings leaves behind
RejectedUpdateChangesNothing ==
    (sm_last # None /\ sm_last.call = "updateSettings" /\ sm_last.rejected) =>
           /\ sm_settings = sm_last.prior
           /\ ~sm_last.saved
           /\ ~sm_last.emitted

====
